---- MODULE Spec2Model ----
(***************************************************************************)
(* Model of package pkgdoc (pnelson/pkgdoc): New loads a package, builds   *)
(* the documentation model with the normalizer (pkgValues, pkgFunctions,   *)
(* pkgTypes) and discovers sub-packages on the file system                 *)
(* (getSubPackages, hasGoFiles).                                           *)
(*                                                                         *)
(* Go strings on which the code works character by character (file names)  *)
(* are tuples of one-character strings; other strings are TLA+ strings.    *)
(* A Go slice is a record [isNil, elems]: the zero value Package{} holds   *)
(* nil slices, make() and append() give non-nil ones.                      *)
(***************************************************************************)
EXTENDS Naturals, Sequences, FiniteSets

VARIABLES
    name,     \* the import path New is called with
    dpkg,     \* what the loader and go/doc yield for the one package on disk
    fs,       \* the file system below GOPATH/src and GOROOT/src
    pc,       \* position of the invocation: "start", "built", "done"
    variant,  \* which New ran: "subpkgs" (with discovery) or "basic"
    pdoc,     \* New's local variable pdoc
    ret,      \* New's result [pkg, err]
    calls     \* the blocking calls issued so far, in order, with their errors

vars == <<name, dpkg, fs, pc, variant, pdoc, ret, calls>>

-----------------------------------------------------------------------------
(* Bounds of the model *)

\* a root directory holds at most MaxEntries entries
MaxEntries == 2
\* a subdirectory holds at most MaxChildren entries
MaxChildren == 1
\* a package holds at most MaxDecls declarations
MaxDecls == 3
\* a package holds at most MaxTypes types
MaxTypes == 2

-----------------------------------------------------------------------------
(* Go values *)

NoErr == "nil"
ENOENT == "ENOENT"
EACCES == "EACCES"
ENOTDIR == "ENOTDIR"
LoadErr == "load"

GOPATH == "GOPATH"
GOROOT == "GOROOT"

NilSlice == [isNil |-> TRUE, elems |-> <<>>]

\* make([]T, n) followed by the assignment of every index
MakeSlice(s) == [isNil |-> FALSE, elems |-> s]

\* append(s, x)
AppendSlice(s, x) == [isNil |-> FALSE, elems |-> Append(s.elems, x)]

\* Package{}
ZeroPackage ==
    [Name |-> "", ImportPath |-> "", Doc |-> <<>>, Synopsis |-> <<>>,
     Constants |-> NilSlice, Variables |-> NilSlice, Functions |-> NilSlice,
     Types |-> NilSlice, SubPackages |-> NilSlice]

\* Package{} of the variant without sub-package discovery
ZeroPackageBasic ==
    [Name |-> "", ImportPath |-> "", Doc |-> <<>>, Synopsis |-> <<>>,
     Constants |-> NilSlice, Variables |-> NilSlice, Functions |-> NilSlice,
     Types |-> NilSlice]

-----------------------------------------------------------------------------
(* File system and the calls made on it *)

\* filepath.Join(base, "src", importPath)
JoinRoot(base, imp) == [base |-> base, imp |-> imp, rel |-> <<>>]

\* filepath.Join(root, dir)
Join(root, dir) == [root EXCEPT !.rel = Append(@, dir)]

\* os.IsNotExist(err)
IsNotExist(err) == err = ENOENT

\* the os.FileInfo values ioutil.ReadDir returns for a listing
FileInfos(entries) ==
    [i \in 1..Len(entries) |-> [name |-> entries[i].name, isDir |-> entries[i].isDir]]

\* ioutil.ReadDir(path) on file system f: the entries in listing order, or an error
ReadDir(f, path) ==
    IF path.imp # f.imp
    THEN [fis |-> <<>>, err |-> ENOENT]
    ELSE LET rootDir == f.roots[path.base] IN
         IF rootDir.stat # NoErr
         THEN [fis |-> <<>>, err |-> rootDir.stat]
         ELSE IF path.rel = <<>>
         THEN [fis |-> FileInfos(rootDir.entries), err |-> NoErr]
         ELSE LET hits == {i \in 1..Len(rootDir.entries) :
                              rootDir.entries[i].name = path.rel[1]} IN
              IF Len(path.rel) # 1 \/ hits = {}
              THEN [fis |-> <<>>, err |-> ENOENT]
              ELSE LET e == rootDir.entries[CHOOSE i \in hits : TRUE] IN
                   IF ~e.isDir THEN [fis |-> <<>>, err |-> ENOTDIR]
                   ELSE IF ~e.readable THEN [fis |-> <<>>, err |-> EACCES]
                   ELSE [fis |-> FileInfos(e.children), err |-> NoErr]

\* one entry of the log of blocking calls
Call(op, target, err) == [op |-> op, target |-> target, err |-> err]

\* position of the final dot of a file name, 0 when it has none
LastDot(s) ==
    LET dots == {i \in 1..Len(s) : s[i] = "."} IN
    IF dots = {} THEN 0 ELSE CHOOSE i \in dots : \A j \in dots : j <= i

\* filepath.Ext(name): the suffix beginning at the final dot, empty without a dot
Ext(s) == IF LastDot(s) = 0 THEN <<>> ELSE SubSeq(s, LastDot(s), Len(s))

DotGo == <<".", "g", "o">>

\* the loop of hasGoFiles over the listing, from index i
RECURSIVE anyGoName(_, _)
anyGoName(fis, i) ==
    IF i > Len(fis) THEN FALSE
    ELSE IF Ext(fis[i].name) = DotGo THEN TRUE
    ELSE anyGoName(fis, i + 1)

\* hasGoFiles taking a subdirectory it cannot list for a source directory
hasGoFilesOnError(f, path) ==
    LET r == ReadDir(f, path) IN
    IF r.err # NoErr THEN TRUE ELSE anyGoName(r.fis, 1)

hasGoFiles(f, path) ==
    LET r == ReadDir(f, path) IN
    IF r.err # NoErr THEN FALSE ELSE anyGoName(r.fis, 1)

\* the scan loop putting each sub-package in front of those recorded before
RECURSIVE scanEntriesPrepend(_, _, _, _, _, _)
scanEntriesPrepend(f, root, fis, i, subs, log) ==
    IF i > Len(fis) THEN [err |-> NoErr, SubPackages |-> subs, calls |-> log]
    ELSE IF fis[i].isDir
    THEN LET dir == fis[i].name
             path == Join(root, dir)
             log2 == Append(log, Call("ReadDir", path, ReadDir(f, path).err))
         IN  IF hasGoFiles(f, path)
             THEN scanEntriesPrepend(f, root, fis, i + 1,
                                     MakeSlice(<<dir>> \o subs.elems), log2)
             ELSE scanEntriesPrepend(f, root, fis, i + 1, subs, log2)
    ELSE scanEntriesPrepend(f, root, fis, i + 1, subs, log)

\* the scan loop returning the error of a subdirectory it cannot list
RECURSIVE scanEntriesAbort(_, _, _, _, _, _)
scanEntriesAbort(f, root, fis, i, subs, log) ==
    IF i > Len(fis) THEN [err |-> NoErr, SubPackages |-> subs, calls |-> log]
    ELSE IF fis[i].isDir
    THEN LET dir == fis[i].name
             path == Join(root, dir)
             log2 == Append(log, Call("ReadDir", path, ReadDir(f, path).err))
         IN  IF ReadDir(f, path).err # NoErr
             THEN [err |-> ReadDir(f, path).err, SubPackages |-> subs, calls |-> log2]
             ELSE IF hasGoFiles(f, path)
             THEN scanEntriesAbort(f, root, fis, i + 1, AppendSlice(subs, dir), log2)
             ELSE scanEntriesAbort(f, root, fis, i + 1, subs, log2)
    ELSE scanEntriesAbort(f, root, fis, i + 1, subs, log)

\* the scan loop of getSubPackages from index i: the sub-packages recorded and
\* the listings issued
RECURSIVE scanEntries(_, _, _, _, _, _)
scanEntries(f, root, fis, i, subs, log) ==
    IF i > Len(fis) THEN [err |-> NoErr, SubPackages |-> subs, calls |-> log]
    ELSE IF fis[i].isDir
    THEN LET dir == fis[i].name
             path == Join(root, dir)
             log2 == Append(log, Call("ReadDir", path, ReadDir(f, path).err))
         IN  IF hasGoFiles(f, path)
             THEN scanEntries(f, root, fis, i + 1, AppendSlice(subs, dir), log2)
             ELSE scanEntries(f, root, fis, i + 1, subs, log2)
    ELSE scanEntries(f, root, fis, i + 1, subs, log)

\* getSubPackages consulting GOROOT before GOPATH
getSubPackagesSwapped(f, p) ==
    LET root1 == JoinRoot(GOROOT, p.ImportPath)
        r1 == ReadDir(f, root1)
        log1 == <<Call("ReadDir", root1, r1.err)>>
        root2 == JoinRoot(GOPATH, p.ImportPath)
        r2 == ReadDir(f, root2)
        log2 == Append(log1, Call("ReadDir", root2, r2.err))
    IN  IF r1.err # NoErr
        THEN IF ~IsNotExist(r1.err)
             THEN [err |-> r1.err, SubPackages |-> p.SubPackages, calls |-> log1]
             ELSE IF r2.err # NoErr
             THEN [err |-> r2.err, SubPackages |-> p.SubPackages, calls |-> log2]
             ELSE scanEntries(f, root2, r2.fis, 1, p.SubPackages, log2)
        ELSE scanEntries(f, root1, r1.fis, 1, p.SubPackages, log1)

\* getSubPackages falling back to GOROOT on every error of the GOPATH listing
getSubPackagesAnyError(f, p) ==
    LET root1 == JoinRoot(GOPATH, p.ImportPath)
        r1 == ReadDir(f, root1)
        log1 == <<Call("ReadDir", root1, r1.err)>>
        root2 == JoinRoot(GOROOT, p.ImportPath)
        r2 == ReadDir(f, root2)
        log2 == Append(log1, Call("ReadDir", root2, r2.err))
    IN  IF r1.err # NoErr
        THEN IF r2.err # NoErr
             THEN [err |-> r2.err, SubPackages |-> p.SubPackages, calls |-> log2]
             ELSE scanEntries(f, root2, r2.fis, 1, p.SubPackages, log2)
        ELSE scanEntries(f, root1, r1.fis, 1, p.SubPackages, log1)

\* getSubPackages listing the GOPATH root a second time when the listing fails
getSubPackagesRetry(f, p) ==
    LET root1 == JoinRoot(GOPATH, p.ImportPath)
        r1 == ReadDir(f, root1)
        log0 == <<Call("ReadDir", root1, r1.err)>>
        log1 == IF r1.err # NoErr
                THEN Append(log0, Call("ReadDir", root1, r1.err)) ELSE log0
        root2 == JoinRoot(GOROOT, p.ImportPath)
        r2 == ReadDir(f, root2)
        log2 == Append(log1, Call("ReadDir", root2, r2.err))
    IN  IF r1.err # NoErr
        THEN IF ~IsNotExist(r1.err)
             THEN [err |-> r1.err, SubPackages |-> p.SubPackages, calls |-> log1]
             ELSE IF r2.err # NoErr
             THEN [err |-> r2.err, SubPackages |-> p.SubPackages, calls |-> log2]
             ELSE scanEntries(f, root2, r2.fis, 1, p.SubPackages, log2)
        ELSE scanEntries(f, root1, r1.fis, 1, p.SubPackages, log1)

\* getSubPackages(p): the error returned, p.SubPackages afterwards, and the
\* listings issued
getSubPackages(f, p) ==
    LET root1 == JoinRoot(GOPATH, p.ImportPath)
        r1 == ReadDir(f, root1)
        log1 == <<Call("ReadDir", root1, r1.err)>>
        root2 == JoinRoot(GOROOT, p.ImportPath)
        r2 == ReadDir(f, root2)
        log2 == Append(log1, Call("ReadDir", root2, r2.err))
    IN  IF r1.err # NoErr
        THEN IF ~IsNotExist(r1.err)
             THEN [err |-> r1.err, SubPackages |-> p.SubPackages, calls |-> log1]
             ELSE IF r2.err # NoErr
             THEN [err |-> r2.err, SubPackages |-> p.SubPackages, calls |-> log2]
             ELSE scanEntries(f, root2, r2.fis, 1, p.SubPackages, log2)
        ELSE scanEntries(f, root1, r1.fis, 1, p.SubPackages, log1)

-----------------------------------------------------------------------------
(* Normalizer *)

\* the tokens of a declaration node separated by single blanks, from token i
RECURSIVE render(_, _)
render(toks, i) ==
    IF i > Len(toks) THEN <<>>
    ELSE IF i = Len(toks) THEN <<toks[i]>>
    ELSE <<toks[i], " ">> \o render(toks, i + 1)

\* decl(v, fset): printer.Fprint of the node; the canonical text does not depend
\* on where the node stood in its file
decl(v) == render(v.Toks, 1)

newValue(v) == [Doc |-> v.Doc, Decl |-> decl(v.Decl)]

pkgValues(vs) == MakeSlice([i \in 1..Len(vs) |-> newValue(vs[i])])

newFunction(f) == [Doc |-> f.Doc, Name |-> f.Name, Decl |-> decl(f.Decl)]

\* pkgFunctions appending to the slice it made with len(fs) zero Functions
pkgFunctionsAppend(fs0) ==
    MakeSlice([i \in 1..Len(fs0) |-> [Doc |-> <<>>, Name |-> <<>>, Decl |-> <<>>]]
                  \o [i \in 1..Len(fs0) |-> newFunction(fs0[i])])

pkgFunctions(fs0) == MakeSlice([i \in 1..Len(fs0) |-> newFunction(fs0[i])])

\* newType filling Methods from the functions associated with the type
newTypeMethodsFromFuncs(t) ==
    [Doc |-> t.Doc, Name |-> t.Name, Decl |-> decl(t.Decl),
     Constants |-> pkgValues(t.Consts),
     Variables |-> pkgValues(t.Vars),
     Functions |-> pkgFunctions(t.Funcs),
     Methods |-> pkgFunctions(t.Funcs)]

newType(t) ==
    [Doc |-> t.Doc, Name |-> t.Name, Decl |-> decl(t.Decl),
     Constants |-> pkgValues(t.Consts),
     Variables |-> pkgValues(t.Vars),
     Functions |-> pkgFunctions(t.Funcs),
     Methods |-> pkgFunctions(t.Methods)]

pkgTypes(ts) == MakeSlice([i \in 1..Len(ts) |-> newType(ts[i])])

\* doc.Synopsis(text): the first sentence, ended by a period that is followed by
\* a blank or by the end of the text
Synopsis(text) ==
    LET ends == {i \in 1..Len(text) :
                    text[i] = "." /\ (i = Len(text) \/ text[i + 1] = " ")} IN
    IF ends = {} THEN text
    ELSE SubSeq(text, 1, CHOOSE i \in ends : \A j \in ends : i <= j)

-----------------------------------------------------------------------------
(* New *)

\* conf.Import(name); conf.Load(): the package on disk is the only one to load
confLoad(n, d) == IF n = d.ImportPath THEN NoErr ELSE LoadErr

\* the composite literal pdoc := Package{...}
buildPdoc(d) ==
    [Name |-> d.Name, ImportPath |-> d.ImportPath, Doc |-> d.Doc,
     Synopsis |-> Synopsis(d.Doc),
     Constants |-> pkgValues(d.Consts),
     Variables |-> pkgValues(d.Vars),
     Functions |-> pkgFunctions(d.Funcs),
     Types |-> pkgTypes(d.Types),
     SubPackages |-> MakeSlice(<<>>)]

\* the composite literal of the variant without sub-package discovery
buildPdocBasic(d) ==
    [Name |-> d.Name, ImportPath |-> d.ImportPath, Doc |-> d.Doc,
     Synopsis |-> Synopsis(d.Doc),
     Constants |-> pkgValues(d.Consts),
     Variables |-> pkgValues(d.Vars),
     Functions |-> pkgFunctions(d.Funcs),
     Types |-> pkgTypes(d.Types)]

\* if err != nil { return Package{}, err } after conf.Load
loadFailed(err) == [pkg |-> ZeroPackage, err |-> err]

\* New returning Package{} with the discovery error
discoveredZero(p, err) ==
    IF err # NoErr THEN [pkg |-> ZeroPackage, err |-> err] ELSE [pkg |-> p, err |-> NoErr]

\* the two returns after getSubPackages(&pdoc)
discovered(p, err) ==
    IF err # NoErr THEN [pkg |-> p, err |-> err] ELSE [pkg |-> p, err |-> NoErr]

\* New, variant with discovery: conf.Load fails
LoadError ==
    /\ pc = "start"
    /\ confLoad(name, dpkg) # NoErr
    /\ calls' = Append(calls, Call("Load", name, confLoad(name, dpkg)))
    /\ ret' = loadFailed(confLoad(name, dpkg))
    /\ variant' = "subpkgs"
    /\ pc' = "done"
    /\ UNCHANGED <<name, dpkg, fs, pdoc>>

\* New, variant with discovery: conf.Load succeeds and pdoc is built
LoadBuild ==
    /\ pc = "start"
    /\ confLoad(name, dpkg) = NoErr
    /\ calls' = Append(calls, Call("Load", name, NoErr))
    /\ pdoc' = buildPdoc(dpkg)
    /\ variant' = "subpkgs"
    /\ pc' = "built"
    /\ UNCHANGED <<name, dpkg, fs, ret>>

\* New, variant with discovery: getSubPackages(&pdoc) and the return
Discover ==
    /\ pc = "built"
    /\ LET r == getSubPackages(fs, pdoc)
           p == [pdoc EXCEPT !.SubPackages = r.SubPackages]
       IN  /\ pdoc' = p
           /\ ret' = discovered(p, r.err)
           /\ calls' = calls \o r.calls
    /\ pc' = "done"
    /\ UNCHANGED <<name, dpkg, fs, variant>>

\* New of the variant without sub-package discovery, as a whole
NewBasic ==
    /\ pc = "start"
    /\ calls' = Append(calls, Call("Load", name, confLoad(name, dpkg)))
    /\ IF confLoad(name, dpkg) # NoErr
       THEN /\ ret' = [pkg |-> ZeroPackageBasic, err |-> confLoad(name, dpkg)]
            /\ pdoc' = pdoc
       ELSE /\ pdoc' = buildPdocBasic(dpkg)
            /\ ret' = [pkg |-> buildPdocBasic(dpkg), err |-> NoErr]
    /\ variant' = "basic"
    /\ pc' = "done"
    /\ UNCHANGED <<name, dpkg, fs>>

Next == LoadError \/ LoadBuild \/ Discover \/ NewBasic

-----------------------------------------------------------------------------
(* Inputs: the packages the loader and go/doc can yield *)

\* the numbers 1..n in increasing order
Indices(n) == [i \in 1..n |-> i]

\* the AST node of declaration i: its position and its tokens
Node(kw, id, i) == [Pos |-> 10 * i, Toks |-> <<kw, id>>]

RawValue(kw, i) ==
    [Doc |-> <<"doc of value", i>>, Decl |-> Node(kw, <<"V", i>>, i)]

RawFunc(i) ==
    [Doc |-> <<"doc of func", i>>, Name |-> <<"F", i>>,
     Decl |-> Node("func", <<"F", i>>, i)]

\* where go/doc files a declaration: its kind, and the type it is associated
\* with (0: none, the declaration is top-level)
Owners(t) ==
    [kind : {"const", "var", "func"}, type : 0..t]
        \cup [kind : {"method"}, type : 1..t]

\* the declarations go/doc groups under (kind, type), in declaration order
Group(own, kind, type) ==
    SelectSeq(Indices(Len(own)), LAMBDA i : own[i].kind = kind /\ own[i].type = type)

RawValues(own, kind, type) ==
    LET g == Group(own, kind, type)
    IN  [k \in 1..Len(g) |-> RawValue(kind, g[k])]

RawFuncs(own, kind, type) ==
    LET g == Group(own, kind, type)
    IN  [k \in 1..Len(g) |-> RawFunc(g[k])]

RawType(own, k) ==
    [Doc |-> <<"doc of type", k>>, Name |-> <<"T", k>>,
     Decl |-> Node("type", <<"T", k>>, 100 + k),
     Consts |-> RawValues(own, "const", k),
     Vars |-> RawValues(own, "var", k),
     Funcs |-> RawFuncs(own, "func", k),
     Methods |-> RawFuncs(own, "method", k)]

\* the doc.Package of a package with t types whose i-th declaration go/doc
\* files under own[i]: every declaration is in exactly one group
RawPackage(text, t, own) ==
    [Name |-> "net", ImportPath |-> "net", Doc |-> text,
     Consts |-> RawValues(own, "const", 0),
     Vars |-> RawValues(own, "var", 0),
     Funcs |-> RawFuncs(own, "func", 0),
     Types |-> [k \in 1..t |-> RawType(own, k)]]

NoDoc == <<>>
PackageDoc == <<"A", " ", "b", ".", "c", ".", " ", "D", ".">>

SamplePackages ==
    {RawPackage(NoDoc, 0, <<>>),
     RawPackage(PackageDoc, 1,
                <<[kind |-> "const", type |-> 0], [kind |-> "func", type |-> 0],
                  [kind |-> "method", type |-> 1]>>)}

\* the import paths New is called with: the package on disk and an unknown one
ImportPaths == {"net", "nosuch"}

-----------------------------------------------------------------------------
(* Inputs: the file systems *)

\* file names, in the order ioutil.ReadDir sorts them
RootNames == << <<"c", "m", "d">>, <<"d", "o", "c", ".", "g", "o">>, <<"u", "r", "l">> >>
ChildNames ==
    << <<"a", ".", "g", "o", ".", "t">>, <<"x", ".", "g", "o">>,
       <<"y", ".", "t", "x", "t">> >>

\* the listing of a subdirectory in which ChildNames[i] is c[i]: "none", "file"
\* or "dir"
ChildListing(c) ==
    LET idx == SelectSeq(Indices(Len(ChildNames)), LAMBDA i : c[i] # "none")
    IN  [k \in 1..Len(idx) |->
            [name |-> ChildNames[idx[k]], isDir |-> c[idx[k]] = "dir"]]

\* the listings of a subdirectory: at most MaxChildren files and directories
ChildListings ==
    {ChildListing(c) :
        c \in {h \in [1..Len(ChildNames) -> {"none", "file", "dir"}] :
                 Cardinality({i \in 1..Len(ChildNames) : h[i] # "none"}) <= MaxChildren}}

\* what an entry of a root can be: a file, a directory that lists, a directory
\* whose listing fails
EntryShapes ==
    {[isDir |-> FALSE, readable |-> TRUE, children |-> <<>>]}
        \cup [isDir : {TRUE}, readable : {TRUE}, children : ChildListings]
        \cup [isDir : {TRUE}, readable : {FALSE},
              children : {<<>>, <<[name |-> ChildNames[2], isDir |-> FALSE]>>}]

Entry(nm, shape) ==
    [name |-> nm, isDir |-> shape.isDir, readable |-> shape.readable,
     children |-> shape.children]

Absent == [absent |-> TRUE]

\* the listing of a root in which RootNames[i] has shape g[i], or is absent
RootListing(g) ==
    LET idx == SelectSeq(Indices(Len(RootNames)), LAMBDA i : g[i] # Absent)
    IN  [k \in 1..Len(idx) |-> Entry(RootNames[idx[k]], g[idx[k]])]

\* the listings of a root: at most MaxEntries entries
RootListings ==
    {RootListing(g) :
        g \in {h \in [1..Len(RootNames) -> EntryShapes \cup {Absent}] :
                 Cardinality({i \in 1..Len(RootNames) : h[i] # Absent}) <= MaxEntries}}

\* a root that cannot be listed
NoRoot(err) == [stat |-> err, entries |-> <<>>]

\* a root with listing l
Listed(l) == [stat |-> NoErr, entries |-> l]

\* the file system with primary root p and secondary root s
FileSystem(p, s) == [imp |-> "net", roots |-> [GOPATH |-> p, GOROOT |-> s]]

SampleListing ==
    <<Entry(RootNames[1], [isDir |-> TRUE, readable |-> TRUE,
                           children |-> <<[name |-> ChildNames[2], isDir |-> FALSE]>>]),
      Entry(RootNames[2], [isDir |-> FALSE, readable |-> TRUE, children |-> <<>>])>>

SampleRootDirs == {NoRoot(ENOENT), NoRoot(EACCES), Listed(SampleListing)}

\* the secondary root matters to the code only when the primary root does not
\* exist: every secondary root is enumerated there, a few otherwise
InitFileSystem ==
    \/ \E l \in RootListings, s \in SampleRootDirs : fs = FileSystem(Listed(l), s)
    \/ \E e \in {EACCES, ENOTDIR}, s \in SampleRootDirs : fs = FileSystem(NoRoot(e), s)
    \/ \E l \in RootListings : fs = FileSystem(NoRoot(ENOENT), Listed(l))
    \/ \E e \in {ENOENT, EACCES, ENOTDIR} : fs = FileSystem(NoRoot(ENOENT), NoRoot(e))

\* every package with at most MaxTypes types and MaxDecls declarations
InitPackage ==
    \E t \in 0..MaxTypes, n \in 0..MaxDecls :
        \E own \in [1..n -> Owners(t)] : dpkg = RawPackage(PackageDoc, t, own)

-----------------------------------------------------------------------------
(* Specifications *)

InitLocals ==
    /\ pc = "start"
    /\ variant = "none"
    /\ pdoc = ZeroPackage
    /\ ret = [pkg |-> ZeroPackage, err |-> NoErr]
    /\ calls = <<>>

\* sub-package discovery over every file system
Init ==
    /\ name \in ImportPaths
    /\ dpkg \in SamplePackages
    /\ InitFileSystem
    /\ InitLocals

Spec == Init /\ [][Next]_vars

\* the normalizer over every package
InitNorm ==
    /\ name \in ImportPaths
    /\ InitPackage
    /\ \E p \in {NoRoot(ENOENT), Listed(SampleListing)} :
           fs = FileSystem(p, NoRoot(ENOENT))
    /\ InitLocals

SpecNorm == InitNorm /\ [][Next]_vars

-----------------------------------------------------------------------------
(* Vocabulary of the properties *)

\* New, in the variant with discovery, has returned
Returned == pc = "done" /\ variant = "subpkgs"

\* the package New was asked for is the one on disk
Loadable == name = dpkg.ImportPath

Primary == fs.roots["GOPATH"]
Secondary == fs.roots["GOROOT"]
PrimaryPath == [base |-> "GOPATH", imp |-> dpkg.ImportPath, rel |-> <<>>]
SecondaryPath == [base |-> "GOROOT", imp |-> dpkg.ImportPath, rel |-> <<>>]

\* the root the fallback rule resolves to, when there is one
Resolves == Primary.stat = "nil" \/ (Primary.stat = "ENOENT" /\ Secondary.stat = "nil")
ResolvedBase == IF Primary.stat = "nil" THEN "GOPATH" ELSE "GOROOT"
ResolvedEntries == fs.roots[ResolvedBase].entries

\* the directory listings issued, in order
Listings == SelectSeq(calls, LAMBDA c : c.op = "ReadDir")
RootListingTargets ==
    LET ls == SelectSeq(Listings, LAMBDA c : c.target.rel = <<>>)
    IN  [i \in 1..Len(ls) |-> ls[i].target]
SubdirTargets == {Listings[i].target : i \in {j \in 1..Len(Listings) : Listings[j].target.rel # <<>>}}

\* the paths of the directories among the entries of the resolved root
ResolvedSubdirs ==
    {[base |-> ResolvedBase, imp |-> dpkg.ImportPath, rel |-> <<ResolvedEntries[i].name>>] :
        i \in {j \in 1..Len(ResolvedEntries) : ResolvedEntries[j].isDir}}

Range(s) == {s[i] : i \in 1..Len(s)}
SubPackages == ret.pkg.SubPackages.elems

\* the name ends in ".go"
EndsInDotGo(nm) ==
    Len(nm) >= 3 /\ nm[Len(nm) - 2] = "." /\ nm[Len(nm) - 1] = "g" /\ nm[Len(nm)] = "o"

\* the slice is non-nil and as long as the raw group
SameLen(out, raw) == ~out.isNil /\ Len(out.elems) = Len(raw)

\* the package is the one built from dpkg
Populated(p) ==
    /\ p.Name = dpkg.Name /\ p.Name # ""
    /\ p.ImportPath = dpkg.ImportPath
    /\ p.Doc = dpkg.Doc
    /\ Len(p.Synopsis) <= Len(p.Doc)
    /\ SameLen(p.Constants, dpkg.Consts)
    /\ SameLen(p.Variables, dpkg.Vars)
    /\ SameLen(p.Functions, dpkg.Funcs)
    /\ SameLen(p.Types, dpkg.Types)

-----------------------------------------------------------------------------
(* Sub-package discovery *)

\* C1: getSubPackages lists the primary root (GOPATH/src/<import path>) when it
\* exists and never the secondary one; when the primary root does not exist it
\* lists the secondary root (GOROOT/src/<import path>) instead; when neither
\* exists it returns the listing error and records no sub-package.
C1_RootFallback ==
    (Returned /\ Loadable) =>
        /\ Primary.stat # "ENOENT" => RootListingTargets = <<PrimaryPath>>
        /\ Primary.stat = "ENOENT" => RootListingTargets = <<PrimaryPath, SecondaryPath>>
        /\ Resolves =>
              /\ ret.err = "nil"
              /\ SubdirTargets = ResolvedSubdirs
              /\ Range(SubPackages) \subseteq {t.rel[1] : t \in ResolvedSubdirs}
        /\ (Primary.stat = "ENOENT" /\ Secondary.stat = "ENOENT") =>
              /\ ret.err = "ENOENT"
              /\ SubPackages = <<>>
              /\ SubdirTargets = {}

\* the fallback happened: the secondary root was listed and gave a sub-package
C1_Witness ==
    /\ Returned /\ Loadable
    /\ Primary.stat = "ENOENT" /\ Secondary.stat = "nil"
    /\ Len(SubPackages) >= 1

\* C2: after a successful discovery SubPackages holds exactly the names of the
\* entries of the resolved root that are directories and directly contain at
\* least one file (not a directory) whose name ends in ".go"; a subdirectory
\* that fails to list counts as containing none.
C2_ExactlySourceDirs ==
    (Returned /\ Loadable /\ ret.err = "nil") =>
        Range(SubPackages) =
            {ResolvedEntries[i].name :
                i \in {j \in 1..Len(ResolvedEntries) :
                         /\ ResolvedEntries[j].isDir
                         /\ ResolvedEntries[j].readable
                         /\ \E c \in Range(ResolvedEntries[j].children) :
                                ~c.isDir /\ EndsInDotGo(c.name)}}

\* C9: when the listing of the primary root fails with an error other than
\* does-not-exist, that error is returned at once, the secondary root is never
\* listed and no sub-package is recorded.
C9_OnlyNotExistFallsBack ==
    (Returned /\ Loadable /\ Primary.stat \notin {"nil", "ENOENT"}) =>
        /\ ret.err = Primary.stat
        /\ RootListingTargets = <<PrimaryPath>>
        /\ Len(Listings) = 1
        /\ SubPackages = <<>>

\* the primary root is not a directory while the secondary root holds a sub-package
C9_Witness ==
    /\ Returned /\ Loadable
    /\ Primary.stat = "ENOTDIR"
    /\ Secondary.stat = "nil"
    /\ \E e \in Range(Secondary.entries) :
          e.isDir /\ e.readable /\ \E c \in Range(e.children) : EndsInDotGo(c.name)

\* C10: a discovery error comes with the empty, non-nil SubPackages; a load
\* error comes with no directory listing at all; no listing is issued before the
\* load has succeeded and pdoc is built.
C10_DiscoveryAllOrNothing ==
    /\ (Returned /\ ret.err \notin {"nil", "load"}) =>
          ret.pkg.SubPackages = [isNil |-> FALSE, elems |-> <<>>]
    /\ (Returned /\ ret.err = "load") => Listings = <<>>
    /\ Listings # <<>> =>
          /\ calls[1] = [op |-> "Load", target |-> name, err |-> "nil"]
          /\ Populated(pdoc)

\* New returned the built package with a discovery error although GOROOT was consulted
C10_Witness ==
    /\ Returned /\ Loadable
    /\ ret.err = "EACCES"
    /\ Len(Listings) = 2
    /\ ret.pkg.Name = "net"

\* the root with every subdirectory that fails to list made an empty one that lists
Healed(root) ==
    [root EXCEPT !.entries =
        [i \in 1..Len(root.entries) |->
            IF root.entries[i].isDir /\ ~root.entries[i].readable
            THEN [root.entries[i] EXCEPT !.readable = TRUE, !.children = <<>>]
            ELSE root.entries[i]]]

HealedFileSystem ==
    [fs EXCEPT !.roots = [GOPATH |-> Healed(Primary), GOROOT |-> Healed(Secondary)]]

\* the subdirectories of the resolved root whose listing fails
FailingSubdirs ==
    {ResolvedEntries[i].name :
        i \in {j \in 1..Len(ResolvedEntries) :
                 ResolvedEntries[j].isDir /\ ~ResolvedEntries[j].readable}}

\* C4: a subdirectory of the resolved root whose listing fails is not recorded,
\* the scan goes on over every remaining entry, the other subdirectories are
\* recorded as they are when the failing ones are empty directories that list,
\* and getSubPackages returns no error.
C4_SubdirFailureAbsorbed ==
    (Returned /\ Loadable /\ Resolves /\ FailingSubdirs # {}) =>
        /\ ret.err = "nil"
        /\ Range(SubPackages) \cap FailingSubdirs = {}
        /\ SubdirTargets = ResolvedSubdirs
        /\ SubPackages =
              getSubPackages(HealedFileSystem, buildPdoc(dpkg)).SubPackages.elems

\* the first subdirectory holds a source file and fails to list, a later one is recorded
C4_Witness ==
    /\ Returned /\ Loadable /\ Resolves
    /\ Len(ResolvedEntries) >= 2
    /\ ResolvedEntries[1].isDir /\ ~ResolvedEntries[1].readable
    /\ ResolvedEntries[1].children # <<>>
    /\ SubPackages = <<ResolvedEntries[2].name>>

\* no blocking call is issued twice on a target
NoCallRepeated ==
    \A i, j \in 1..Len(calls) :
        (calls[i].op = calls[j].op /\ calls[i].target = calls[j].target) => i = j

\* call i is the last one and its error is the result of New
Fatal(i) == i = Len(calls) /\ ret.err = calls[i].err

\* C5 as stated: every blocking call is issued at most once per target, and
\* every call that errors is the last call of the invocation and its error is
\* the result of New.
C5_EveryErrorFatal ==
    pc = "done" =>
        /\ NoCallRepeated
        /\ \A i \in 1..Len(calls) : calls[i].err # "nil" => Fatal(i)

\* C5 as amended: every blocking call is issued at most once per target; a
\* failed load, a failed listing of the primary root with an error other than
\* does-not-exist and a failed listing of the secondary root are the last call
\* and the result of New; a primary root that does not exist is followed by one
\* listing of the secondary root; a failed subdirectory listing is absorbed, the
\* scan going on and New returning no error.
C5_NoRetries ==
    pc = "done" =>
        /\ NoCallRepeated
        /\ \A i \in 1..Len(calls) : calls[i].err # "nil" =>
              IF calls[i].op = "Load" THEN Fatal(i)
              ELSE IF calls[i].target.rel # <<>> THEN ret.err = "nil"
              ELSE IF calls[i].target.base = "GOPATH" /\ calls[i].err = "ENOENT"
              THEN /\ i < Len(calls)
                   /\ calls[i + 1].op = "ReadDir"
                   /\ calls[i + 1].target = SecondaryPath
              ELSE Fatal(i)

\* the primary root does not exist, a subdirectory of the secondary one fails to
\* list and New returns no error
C5_Witness ==
    /\ Returned /\ Loadable
    /\ Primary.stat = "ENOENT" /\ Secondary.stat = "nil"
    /\ FailingSubdirs # {}
    /\ ret.err = "nil"
    /\ Len(SubPackages) >= 1

\* where the listing of the resolved root has the name
Position(nm) == CHOOSE k \in 1..Len(ResolvedEntries) : ResolvedEntries[k].name = nm

\* C6: SubPackages is a subsequence of the listing of the resolved root: its
\* names stand in the order of their entries in the listing, none twice.
C6_ListingOrder ==
    (Returned /\ Loadable /\ ret.err = "nil") =>
        /\ \A i \in 1..Len(SubPackages) :
              \E k \in 1..Len(ResolvedEntries) : ResolvedEntries[k].name = SubPackages[i]
        /\ \A i, j \in 1..Len(SubPackages) :
              i < j => Position(SubPackages[i]) < Position(SubPackages[j])

\* two sub-packages are recorded
C6_Witness ==
    /\ Returned /\ Loadable /\ ret.err = "nil"
    /\ Len(SubPackages) >= 2

-----------------------------------------------------------------------------
(* New and the normalizer *)

\* the model New holds or has returned
HasModel == pc = "built" \/ (pc = "done" /\ ret.err # "load")
Model == IF pc = "built" THEN pdoc ELSE ret.pkg

FullyPopulated == ret.err = "nil" /\ Populated(ret.pkg)
WithDiscoveryError == ret.err \in {"ENOENT", "EACCES", "ENOTDIR"} /\ Populated(ret.pkg)
LoadFailure ==
    /\ ret.err = "load"
    /\ ret.pkg = IF variant = "basic" THEN ZeroPackageBasic ELSE ZeroPackage

\* C3: New ends in exactly one of: a fully populated Package and no error; the
\* built Package and a discovery error; a load error and the zero Package.
C3_Outcomes ==
    pc = "done" =>
        /\ FullyPopulated \/ WithDiscoveryError \/ LoadFailure
        /\ ~(FullyPopulated /\ WithDiscoveryError)
        /\ ~(FullyPopulated /\ LoadFailure)
        /\ ~(WithDiscoveryError /\ LoadFailure)
        /\ ret.err = "load" => ~Populated(ret.pkg)
        /\ ret.err = "nil" => ret.pkg.Name # "" /\ ~ret.pkg.Types.isNil
        /\ LoadFailure <=> ~Loadable
        /\ variant = "basic" => ~WithDiscoveryError

\* New returned the built package, declarations included, with a discovery error
C3_Witness ==
    /\ Returned
    /\ WithDiscoveryError
    /\ Len(ret.pkg.Functions.elems) >= 1
    /\ Len(ret.pkg.Types.elems) >= 1

\* the canonical text of a node of two tokens
TextOf(node) == <<node.Toks[1], " ", node.Toks[2]>>

ValuesFollow(out, raw) ==
    /\ SameLen(out, raw)
    /\ \A i \in 1..Len(raw) :
          out.elems[i].Doc = raw[i].Doc /\ out.elems[i].Decl = TextOf(raw[i].Decl)

FunctionsFollow(out, raw) ==
    /\ SameLen(out, raw)
    /\ \A i \in 1..Len(raw) :
          /\ out.elems[i].Doc = raw[i].Doc
          /\ out.elems[i].Name = raw[i].Name
          /\ out.elems[i].Decl = TextOf(raw[i].Decl)

\* C7: every group of the model has the length of the extractor's group and its
\* i-th element is the normalization of the i-th raw declaration.
C7_OrderPreserved ==
    HasModel =>
        /\ ValuesFollow(Model.Constants, dpkg.Consts)
        /\ ValuesFollow(Model.Variables, dpkg.Vars)
        /\ FunctionsFollow(Model.Functions, dpkg.Funcs)
        /\ SameLen(Model.Types, dpkg.Types)
        /\ \A k \in 1..Len(dpkg.Types) :
              /\ Model.Types.elems[k].Doc = dpkg.Types[k].Doc
              /\ Model.Types.elems[k].Name = dpkg.Types[k].Name
              /\ Model.Types.elems[k].Decl = TextOf(dpkg.Types[k].Decl)
              /\ ValuesFollow(Model.Types.elems[k].Constants, dpkg.Types[k].Consts)
              /\ ValuesFollow(Model.Types.elems[k].Variables, dpkg.Types[k].Vars)
              /\ FunctionsFollow(Model.Types.elems[k].Functions, dpkg.Types[k].Funcs)
              /\ FunctionsFollow(Model.Types.elems[k].Methods, dpkg.Types[k].Methods)

\* a returned model with two top-level functions and a type with two constants
C7_Witness ==
    /\ pc = "done" /\ HasModel
    /\ Len(Model.Functions.elems) >= 2
    /\ Len(Model.Types.elems) >= 1
    /\ Len(Model.Types.elems[1].Constants.elems) >= 1

\* the functions and the values of a model, group after group
RECURSIVE NestedFunctions(_, _)
NestedFunctions(ts, k) ==
    IF k > Len(ts) THEN <<>>
    ELSE ts[k].Functions.elems \o ts[k].Methods.elems \o NestedFunctions(ts, k + 1)
RECURSIVE NestedValues(_, _)
NestedValues(ts, k) ==
    IF k > Len(ts) THEN <<>>
    ELSE ts[k].Constants.elems \o ts[k].Variables.elems \o NestedValues(ts, k + 1)
AllFunctions(p) == p.Functions.elems \o NestedFunctions(p.Types.elems, 1)
AllValues(p) == p.Constants.elems \o p.Variables.elems \o NestedValues(p.Types.elems, 1)
NoDuplicate(s) == \A i, j \in 1..Len(s) : s[i] = s[j] => i = j
Names(s) == [i \in 1..Len(s) |-> s[i].Name]

\* C8: a Type's Methods are exactly the functions the extractor grouped under
\* it as receiver, and no Value, Function or Type is in two collections of the
\* model, the raw groups being disjoint.
C8_OneOwner ==
    HasModel =>
        /\ \A k \in 1..Len(dpkg.Types) :
              Names(Model.Types.elems[k].Methods.elems) = Names(dpkg.Types[k].Methods)
        /\ NoDuplicate(AllFunctions(Model))
        /\ NoDuplicate(AllValues(Model))
        /\ NoDuplicate(Names(Model.Types.elems))

\* a returned model with a top-level function, a function of the first type and
\* a method of the second
C8_Witness ==
    /\ pc = "done" /\ HasModel
    /\ Len(Model.Functions.elems) = 1
    /\ Len(Model.Types.elems) = 2
    /\ Len(Model.Types.elems[1].Functions.elems) = 1
    /\ Len(Model.Types.elems[2].Methods.elems) = 1

====
